---- MODULE Spec2Model ----
(***************************************************************************)
(* Google Drive invoice analyzer (invoice_analyzer/): the folder polling   *)
(* cursor of gdrive.py, the keyword classifier of pdf_processor.py, the    *)
(* regular-expression field extractor of invoice_extractor.py and the      *)
(* record store and query tools of server.py.                              *)
(*                                                                         *)
(* Python str values are TLA+ strings (a character is a string of length   *)
(* one), Python None is the string constant None below, a dict is a        *)
(* function whose DOMAIN is its key set, a list is a sequence.             *)
(***************************************************************************)
EXTENDS Integers, Sequences, FiniteSets, TLC

(***************************************************************************)
(* Python values and str methods                                           *)
(***************************************************************************)

\* Python's None (no text of the model is this string).
None == "<None>"

\* JSON's null, as json.dump writes None.
JsonNull == "<null>"

CharAt(s, i) == SubSeq(s, i, i)

CharsOf(s) == {CharAt(s, i) : i \in 1..Len(s)}

Uppers == "ABCDEFGHIJKLMNOPQRSTUVWXYZ"

Lowers == "abcdefghijklmnopqrstuvwxyz"

Digits == "0123456789"

\* The characters str.isspace() and the regex class \s accept.
Whitespace == {" ", "\t", "\n", "\r", "\f"}

IndexIn(c, s) == IF \E i \in 1..Len(s) : CharAt(s, i) = c
                 THEN CHOOSE i \in 1..Len(s) : CharAt(s, i) = c
                 ELSE 0

lower_char(c) == IF IndexIn(c, Uppers) = 0 THEN c ELSE CharAt(Lowers, IndexIn(c, Uppers))

upper_char(c) == IF IndexIn(c, Lowers) = 0 THEN c ELSE CharAt(Uppers, IndexIn(c, Lowers))

RECURSIVE str_lower(_)
\* str.lower()
str_lower(s) == IF Len(s) <= 1 THEN lower_char(s)
                ELSE str_lower(SubSeq(s, 1, Len(s) \div 2)) \o str_lower(SubSeq(s, Len(s) \div 2 + 1, Len(s)))

\* `sub in s` for two str
str_contains(s, sub) == \E i \in 0..(Len(s) - Len(sub)) : SubSeq(s, i + 1, i + Len(sub)) = sub

\* the number of leading whitespace characters of s
leading_space(s) == CHOOSE n \in 0..Len(s) :
                       /\ \A j \in 1..n : CharAt(s, j) \in Whitespace
                       /\ n = Len(s) \/ CharAt(s, n + 1) \notin Whitespace

\* the number of trailing whitespace characters of s
trailing_space(s) == CHOOSE n \in 0..Len(s) :
                        /\ \A j \in 1..n : CharAt(s, Len(s) + 1 - j) \in Whitespace
                        /\ n = Len(s) \/ CharAt(s, Len(s) - n) \notin Whitespace

str_lstrip(s) == SubSeq(s, leading_space(s) + 1, Len(s))

str_rstrip(s) == SubSeq(s, 1, Len(s) - trailing_space(s))

\* str.strip()
str_strip(s) == str_rstrip(str_lstrip(s))

RECURSIVE str_remove(_, _)
\* str.replace(c, "") for a single character c
str_remove(s, c) == IF Len(s) <= 1 THEN (IF s = c THEN "" ELSE s)
                    ELSE str_remove(SubSeq(s, 1, Len(s) \div 2), c)
                         \o str_remove(SubSeq(s, Len(s) \div 2 + 1, Len(s)), c)

\* Python truthiness of a str-or-None value
Truthy(v) == v # None /\ v # ""

\* dict.get(key, default)
dict_get(d, key, default) == IF key \in DOMAIN d THEN d[key] ELSE default

(***************************************************************************)
(* re: a backtracking matcher with Python's priorities.  A pattern is a    *)
(* tree of the nodes below.  A thread is a way the match may still go on:  *)
(* the nodes left to match, the offset reached and the groups captured.    *)
(* Run takes the threads in order of preference, as the backtracking of re *)
(* does, and re_search takes the first match at the leftmost offset that   *)
(* has one.                                                                *)
(***************************************************************************)

\* Unbounded repetition count
Unbounded == -1

\* one character of the set cs
ReSet(cs) == [k |-> "set", cs |-> cs]

\* one character not in the set cs ("." is ReNot({"\n"}), with DOTALL ReNot({}))
ReNot(cs) == [k |-> "not", cs |-> cs]

\* a literal string, case-sensitive
ReStr(s) == [k |-> "lit", s |-> s]

\* a literal string under re.IGNORECASE
ReStrI(s) == [k |-> "liti", s |-> s]

ReCat(parts) == [k |-> "cat", parts |-> parts]

ReAlt(parts) == [k |-> "alt", parts |-> parts]

\* body{lo,hi}, greedy or lazy
ReRep(body, lo, hi, greedy) == [k |-> "rep", body |-> body, lo |-> lo, hi |-> hi, greedy |-> greedy]

\* capture group number n
ReGrp(n, body) == [k |-> "grp", n |-> n, body |-> body]

ReStar(body) == ReRep(body, 0, Unbounded, TRUE)

RePlus(body) == ReRep(body, 1, Unbounded, TRUE)

ReOpt(body) == ReRep(body, 0, 1, TRUE)

\* \s
ReSpace == ReSet(Whitespace)

\* \d
ReDigit == ReSet(CharsOf(Digits))

\* [A-Za-z0-9\-]
ReToken == ReSet(CharsOf(Uppers) \cup CharsOf(Lowers) \cup CharsOf(Digits) \cup {"-"})

\* [:.\s]*
ReLabelSep == ReStar(ReSet({":", "."} \cup Whitespace))

NoCaps == <<None>>

\* whether the character class node accepts character c
Accepts(node, c) == IF node.k = "set" THEN c \in node.cs ELSE c \notin node.cs

\* whether s continues at offset i with the literal lit
LiteralAt(s, i, lit) == i + Len(lit) <= Len(s) /\ SubSeq(s, i + 1, i + Len(lit)) = lit

\* the thread of t that goes on with nodes at offset pos
Continue(t, nodes, pos) == [nodes |-> nodes, pos |-> pos, caps |-> t.caps]

\* the length of the run of characters the class node accepts from offset i
RunLength(node, s, i) ==
    CHOOSE m \in 0..(Len(s) - i) :
        /\ \A j \in 1..m : Accepts(node, CharAt(s, i + j))
        /\ m = Len(s) - i \/ ~Accepts(node, CharAt(s, i + m + 1))

\* a repeated character class over a run of top accepted characters: one
\* thread per admissible count, the longest first when greedy
ClassRepeat(t, n, rest, top) ==
    [j \in 1..(IF top >= n.lo THEN top - n.lo + 1 ELSE 0) |->
        Continue(t, rest, t.pos + (IF n.greedy THEN top - j + 1 ELSE n.lo + j - 1))]

\* the smaller of a run length and a repetition's upper count
Capped(run, hi) == IF hi = Unbounded \/ run < hi THEN run ELSE hi

\* a repeated group: one more iteration (which must consume), or stop
GroupRepeat(t, n, rest) ==
    LET more == IF n.hi = 0 THEN <<>>
                ELSE <<Continue(t, <<n.body, [k |-> "chk", start |-> t.pos],
                                     ReRep(n.body,
                                           IF n.lo > 0 THEN n.lo - 1 ELSE 0,
                                           IF n.hi = Unbounded THEN Unbounded ELSE n.hi - 1,
                                           n.greedy)>> \o rest, t.pos)>>
        stop == IF n.lo = 0 THEN <<Continue(t, rest, t.pos)>> ELSE <<>>
    IN  IF n.greedy THEN more \o stop ELSE stop \o more

\* The threads that follow thread t once its first node n is matched at
\* t.pos in s, most preferred first; rest are the nodes after n.
ExpandNode(t, n, rest, s) ==
    CASE n.k \in {"set", "not"} ->
           IF t.pos < Len(s) /\ Accepts(n, CharAt(s, t.pos + 1))
           THEN <<Continue(t, rest, t.pos + 1)>> ELSE <<>>
      [] n.k = "lit" ->
           IF LiteralAt(s, t.pos, n.s) THEN <<Continue(t, rest, t.pos + Len(n.s))>> ELSE <<>>
      [] n.k = "liti" ->
           IF LiteralAt(str_lower(s), t.pos, str_lower(n.s))
           THEN <<Continue(t, rest, t.pos + Len(n.s))>> ELSE <<>>
      [] n.k = "cat" -> <<Continue(t, n.parts \o rest, t.pos)>>
      [] n.k = "alt" -> [j \in 1..Len(n.parts) |-> Continue(t, <<n.parts[j]>> \o rest, t.pos)]
      [] n.k = "rep" /\ n.body.k \in {"set", "not"} ->
           ClassRepeat(t, n, rest, Capped(RunLength(n.body, s, t.pos), n.hi))
      [] n.k = "rep" /\ n.body.k \notin {"set", "not"} -> GroupRepeat(t, n, rest)
      [] n.k = "chk" -> IF t.pos > n.start THEN <<Continue(t, rest, t.pos)>> ELSE <<>>
      [] n.k = "grp" ->
           <<Continue(t, <<n.body, [k |-> "end", n |-> n.n, start |-> t.pos]>> \o rest, t.pos)>>
      [] n.k = "end" ->
           <<[nodes |-> rest, pos |-> t.pos,
              caps |-> [t.caps EXCEPT ![n.n] = SubSeq(s, n.start + 1, t.pos)]]>>

Expand(t, s) == ExpandNode(t, Head(t.nodes), Tail(t.nodes), s)

\* the match a finished thread stands for
Matched(t) == [found |-> TRUE, end |-> t.pos, caps |-> t.caps]

RECURSIVE Run(_, _)
\* The first thread, in order of preference, that matches all its nodes
Run(threads, s) ==
    IF Len(threads) = 0 THEN [found |-> FALSE]
    ELSE IF Len(Head(threads).nodes) = 0 THEN Matched(Head(threads))
    ELSE Run(Expand(Head(threads), s) \o Tail(threads), s)

\* pattern.match(s, i): the match of re that starts at offset i of s
MatchAt(re, s, i) == Run(<<[nodes |-> <<re>>, pos |-> i, caps |-> NoCaps]>>, s)

\* the least element of a non-empty set of offsets
Leftmost(starts) == CHOOSE j \in starts : \A m \in starts : j <= m

\* the match m, which starts at offset i
StartingAt(m, i) == [found |-> TRUE, start |-> i, end |-> m.end, caps |-> m.caps]

\* the match at offset i
SearchAt(re, s, i) == StartingAt(MatchAt(re, s, i), i)

\* the match at the leftmost of the offsets that have one
SearchAmong(re, s, starts) ==
    IF starts = {} THEN [found |-> FALSE] ELSE SearchAt(re, s, Leftmost(starts))

\* re.search(pattern, s): [found |-> FALSE] for None, or the match, with
\* group(0) = s[start:end]
re_search(re, s) == SearchAmong(re, s, {i \in 0..Len(s) : MatchAt(re, s, i).found})

group0(s, m) == SubSeq(s, m.start + 1, m.end)

group1(m) == m.caps[1]

(***************************************************************************)
(* pdf_processor.py                                                        *)
(***************************************************************************)

\* A page whose text PyPDF2 cannot extract: extract_text raises on it.
BadPage == "<unreadable page>"

RECURSIVE join_pages(_)
join_pages(pages) == IF pages = <<>> THEN "" ELSE (Head(pages) \o "\n") \o join_pages(Tail(pages))

\* PDFProcessor.extract_text: the pages' texts, each followed by "\n"; None
\* stands for the exception PyPDF2 raises on bytes it cannot read.
extract_text(pdf_data) ==
    IF \E i \in 1..Len(pdf_data) : pdf_data[i] = BadPage THEN None ELSE join_pages(pdf_data)

invoice_indicators == <<"invoice", "bill", "payment", "due date", "total amount",
                        "invoice number", "invoice date", "billed to", "payment terms">>

\* The threshold of is_invoice
InvoiceThreshold == 3

RECURSIVE count_indicators(_, _)
\* sum(1 for indicator in indicators if indicator in text_lower)
count_indicators(indicators, text_lower) ==
    IF indicators = <<>> THEN 0
    ELSE (IF str_contains(text_lower, Head(indicators)) THEN 1 ELSE 0)
         + count_indicators(Tail(indicators), text_lower)

\* A classifier that wants more than three indicators, as the comment in
\* is_invoice has it
is_invoice_more_than(text) ==
    count_indicators(invoice_indicators, str_lower(text)) > InvoiceThreshold

\* PDFProcessor.is_invoice
is_invoice(text) == count_indicators(invoice_indicators, str_lower(text)) >= InvoiceThreshold

(***************************************************************************)
(* invoice_extractor.py                                                    *)
(***************************************************************************)

\* r'invoice\s*(?:#|number|num|no|nbr)[:.\s]*([A-Za-z0-9\-]+)', IGNORECASE
invoice_number_pattern ==
    ReCat(<<ReStrI("invoice"), ReStar(ReSpace),
            ReAlt(<<ReStrI("#"), ReStrI("number"), ReStrI("num"), ReStrI("no"), ReStrI("nbr")>>),
            ReLabelSep, ReGrp(1, RePlus(ReToken))>>)

\* [-/\.]
ReDateSep == ReSet({"-", "/", "."})

\* r'(\d{1,2}[-/\.]\d{1,2}[-/\.]\d{2,4}|\d{2,4}[-/\.]\d{1,2}[-/\.]\d{1,2})'
date_pattern ==
    ReGrp(1, ReAlt(<<
        ReCat(<<ReRep(ReDigit, 1, 2, TRUE), ReDateSep, ReRep(ReDigit, 1, 2, TRUE), ReDateSep,
                ReRep(ReDigit, 2, 4, TRUE)>>),
        ReCat(<<ReRep(ReDigit, 2, 4, TRUE), ReDateSep, ReRep(ReDigit, 1, 2, TRUE), ReDateSep,
                ReRep(ReDigit, 1, 2, TRUE)>>)>>))

\* r'invoice\s*date[:.\s]*' + date_pattern, IGNORECASE
invoice_date_pattern ==
    ReCat(<<ReStrI("invoice"), ReStar(ReSpace), ReStrI("date"), ReLabelSep, date_pattern>>)

\* r'due\s*date[:.\s]*' + date_pattern, IGNORECASE
due_date_pattern ==
    ReCat(<<ReStrI("due"), ReStar(ReSpace), ReStrI("date"), ReLabelSep, date_pattern>>)

\* [\$€£¥]
CurrencyGlyphs == {"$", "€", "£", "¥"}

\* r'[\$€£¥]?\s*(\d{1,3}(?:,\d{3})*(?:\.\d{2})?|\d+(?:\.\d{2})?)'
amount_pattern ==
    ReCat(<<ReOpt(ReSet(CurrencyGlyphs)), ReStar(ReSpace),
            ReGrp(1, ReAlt(<<
                ReCat(<<ReRep(ReDigit, 1, 3, TRUE),
                        ReStar(ReCat(<<ReSet({","}), ReRep(ReDigit, 3, 3, TRUE)>>)),
                        ReOpt(ReCat(<<ReSet({"."}), ReRep(ReDigit, 2, 2, TRUE)>>))>>),
                ReCat(<<RePlus(ReDigit),
                        ReOpt(ReCat(<<ReSet({"."}), ReRep(ReDigit, 2, 2, TRUE)>>))>>)>>))>>)

\* r'total\s*(?:amount|due)?[:.\s]*' + amount_pattern, IGNORECASE
total_pattern ==
    ReCat(<<ReStrI("total"), ReStar(ReSpace), ReOpt(ReAlt(<<ReStrI("amount"), ReStrI("due")>>)),
            ReLabelSep, amount_pattern>>)

\* r'from[:.\s]*(.*?)\n\n', IGNORECASE | DOTALL
from_pattern ==
    ReCat(<<ReStrI("from"), ReLabelSep, ReGrp(1, ReRep(ReNot({}), 0, Unbounded, FALSE)),
            ReStr("\n\n")>>)

\* r'licen[sc]e\s*(?:number|#|key)?[:.\s]*([A-Za-z0-9\-]+)', IGNORECASE
license_pattern ==
    ReCat(<<ReStrI("licen"), ReSet({"s", "S", "c", "C"}), ReStrI("e"), ReStar(ReSpace),
            ReOpt(ReAlt(<<ReStrI("number"), ReStrI("#"), ReStrI("key")>>)),
            ReLabelSep, ReGrp(1, RePlus(ReToken))>>)

\* r'payment\s*method[:.\s]*(.*?)\n', IGNORECASE
payment_method_pattern ==
    ReCat(<<ReStrI("payment"), ReStar(ReSpace), ReStrI("method"), ReLabelSep,
            ReGrp(1, ReRep(ReNot({"\n"}), 0, Unbounded, FALSE)), ReStr("\n")>>)

\* r'(?:credit|card).*?([Xx*]{12,15}\d{4})'
cc_pattern ==
    ReCat(<<ReAlt(<<ReStr("credit"), ReStr("card")>>), ReRep(ReNot({"\n"}), 0, Unbounded, FALSE),
            ReGrp(1, ReCat(<<ReRep(ReSet({"X", "x", "*"}), 12, 15, TRUE),
                             ReRep(ReDigit, 4, 4, TRUE)>>))>>)

\* r'P\.?O\.?\s*(?:#|number)?[:.\s]*([A-Za-z0-9\-]+)', IGNORECASE
po_pattern ==
    ReCat(<<ReStrI("P"), ReOpt(ReSet({"."})), ReStrI("O"), ReOpt(ReSet({"."})), ReStar(ReSpace),
            ReOpt(ReAlt(<<ReStrI("#"), ReStrI("number")>>)),
            ReLabelSep, ReGrp(1, RePlus(ReToken))>>)

\* r'(?:payment\s*)?terms[:.\s]*(.*?)\n', IGNORECASE
terms_pattern ==
    ReCat(<<ReOpt(ReCat(<<ReStrI("payment"), ReStar(ReSpace)>>)), ReStrI("terms"), ReLabelSep,
            ReGrp(1, ReRep(ReNot({"\n"}), 0, Unbounded, FALSE)), ReStr("\n")>>)

RECURSIVE findall_from(_, _, _)

\* the group of match m, then those of the matches after it
findall_next(re, s, m) ==
    <<m.caps[1]>> \o findall_from(re, s, IF m.end = m.start THEN m.start + 1 ELSE m.end)

\* the matches from the leftmost of the offsets that have one
findall_among(re, s, starts) ==
    IF starts = {} THEN <<>> ELSE findall_next(re, s, SearchAt(re, s, Leftmost(starts)))

\* re.findall(pattern, s) for a pattern with one group: the group of every
\* non-overlapping match, scanning from offset i
findall_from(re, s, i) == findall_among(re, s, {j \in i..Len(s) : MatchAt(re, s, j).found})

re_findall(re, s) == findall_from(re, s, 0)

\* match.group(1).strip(), or None when there is no match
stripped_group(m) == IF m.found THEN str_strip(group1(m)) ELSE None

search_group(re, text) == stripped_group(re_search(re, text))

\* the currency of a total match: the first glyph of the chain found in group(0)
currency_of(matched) ==
    IF str_contains(matched, "$") THEN "USD"
    ELSE IF str_contains(matched, "€") THEN "EUR"
    ELSE IF str_contains(matched, "£") THEN "GBP"
    ELSE IF str_contains(matched, "¥") THEN "JPY"
    ELSE None

\* the offset just before the first "\n" of s, or Len(s)
line_end(s) == CHOOSE n \in 0..Len(s) :
                  /\ \A j \in 1..n : CharAt(s, j) # "\n"
                  /\ n = Len(s) \/ CharAt(s, n + 1) = "\n"

\* s.split('\n')[0]
first_line(s) == SubSeq(s, 1, line_end(s))

\* '\n'.join(s.split('\n')[1:])
other_lines(s) == SubSeq(s, line_end(s) + 2, Len(s))

\* the payment_info dict: 'method' and 'card' are set only when found
payment_info_from(pm, cc) ==
    [k \in (IF pm.found THEN {"method"} ELSE {}) \cup (IF cc.found THEN {"card"} ELSE {}) |->
        IF k = "method" THEN str_strip(group1(pm)) ELSE group1(cc)]

payment_info_of(text) ==
    payment_info_from(re_search(payment_method_pattern, text), re_search(cc_pattern, text))

\* lines[0].strip() of the from section, or None
vendor_name_of(from_section) ==
    IF from_section.found THEN str_strip(first_line(str_strip(group1(from_section)))) ELSE None

\* '\n'.join(lines[1:]).strip() of the from section, or None
vendor_address_of(from_section) ==
    IF from_section.found THEN str_strip(other_lines(str_strip(group1(from_section)))) ELSE None

\* the fields set from the total match
total_amount_of(total_match) ==
    IF total_match.found THEN str_strip(group1(total_match)) ELSE None

currency_from(text, total_match) ==
    IF total_match.found THEN currency_of(group0(text, total_match)) ELSE None

\* InvoiceData.to_dict
to_dict(invoice_number, invoice_date, due_date, vendor_name, vendor_address, total_amount, payment_terms, license_info, payment_info, currency, po_number) ==
    [invoice_number |-> invoice_number,
     invoice_date   |-> invoice_date,
     due_date       |-> due_date,
     vendor_name    |-> vendor_name,
     vendor_address |-> vendor_address,
     billed_to      |-> None,
     total_amount   |-> total_amount,
     subtotal       |-> None,
     tax_amount     |-> None,
     line_items     |-> <<>>,
     payment_terms  |-> payment_terms,
     license_info   |-> license_info,
     payment_info   |-> payment_info,
     currency       |-> currency,
     po_number      |-> po_number]

\* the dict of the fields found in text, given its total and from matches
invoice_fields(text, total_match, from_section) ==
    to_dict(search_group(invoice_number_pattern, text),
            search_group(invoice_date_pattern, text),
            search_group(due_date_pattern, text),
            vendor_name_of(from_section),
            vendor_address_of(from_section),
            total_amount_of(total_match),
            search_group(terms_pattern, text),
            re_findall(license_pattern, text),
            payment_info_of(text),
            currency_from(text, total_match),
            search_group(po_pattern, text))

\* InvoiceExtractor.extract_invoice_data followed by InvoiceData.to_dict: the
\* dict saved for a text (raw_text is not part of to_dict)
extract_invoice_data(text) ==
    invoice_fields(text, re_search(total_pattern, text), re_search(from_pattern, text))

(***************************************************************************)
(* The world outside the process: the Drive folder and the clock           *)
(***************************************************************************)

\* Bound: the clock (datetime.now(), modifiedTime) runs over 0..MaxTime.
MaxTime == 2

\* Bound: the uploads and modifications of files in the folder.
MaxWrites == 2

\* Bound: the restarts of the process.
MaxRestarts == 1

FolderIds == {"folderA"}

FileIds == {"f1", "f2"}

\* What an uploaded file can be: its name, mimeType and bytes (for a PDF the
\* page texts PyPDF2 finds in it).
Contents == <<
    [name |-> "acme.pdf", mimeType |-> "application/pdf",
     pages |-> <<"Invoice Number: A1\nFrom: Acme\n\nTotal Amount: $100.00\n">>],
    [name |-> "acme-2.pdf", mimeType |-> "application/pdf",
     pages |-> <<"Invoice No. A1\nBill\n", "Total Due: 250.00\nPayment\n">>],
    [name |-> "scan.pdf", mimeType |-> "application/pdf",
     pages |-> <<"INVOICE\nBilled To: Bob\nPayment due\n">>],
    [name |-> "memo.pdf", mimeType |-> "application/pdf",
     pages |-> <<"hello bill\n">>],
    [name |-> "broken.pdf", mimeType |-> "application/pdf",
     pages |-> <<BadPage>>],
    [name |-> "notes.txt", mimeType |-> "text/plain",
     pages |-> <<"invoice bill payment">>],
    [name |-> "acme-jan.pdf", mimeType |-> "application/pdf",
     pages |-> <<"Invoice Number: B2\nInvoice Date: 01/15/2024\nFrom: Acme\n\nTotal Amount: $500.00\nPayment Terms: Net 30">>],
    [name |-> "zed.pdf", mimeType |-> "application/pdf",
     pages |-> <<"Invoice Number: C3\nInvoice Date: 2/30/2024\nFrom: Zed\n\nTotal Due: €1,600.00\nBill">>] >>

\* A file that is not in the folder
Absent == [c |-> 0, modifiedTime |-> 0]

\* datetime.now().isoformat() and Drive's modifiedTime: the clock value, as text
isoformat(t) == "T" \o ToString(t)

VARIABLES
    clock,              \* the time now
    drive,              \* the folder: file id -> [c: index in Contents or 0, modifiedTime]
    watched_folders,    \* GoogleDriveClient.watched_folders: the folder ids watched
    last_check_time,    \* GoogleDriveClient.last_check_time: folder id -> cursor
    poll,               \* the check_for_new_files call in flight, if any
    check_result,       \* what the last completed check_for_new_files returned
    processed_files,    \* server.processed_files
    invoice_database,   \* server.invoice_database: invoice id -> dict
    disk,               \* invoice_data/: file name -> JSON object
    reply,              \* the last tool call: its name, arguments and result
    writes,             \* how many times the folder was written to
    restarts            \* how many times the process was restarted

vars == <<clock, drive, watched_folders, last_check_time, poll, check_result,
          processed_files, invoice_database, disk, reply, writes, restarts>>


(***************************************************************************)
(* Dicts, JSON and the store directory                                     *)
(***************************************************************************)

EmptyDict == [k \in {} |-> None]

\* d[key] = value
dict_set(d, key, value) == [k \in DOMAIN d \cup {key} |-> IF k = key THEN value ELSE d[k]]

\* The keys whose values are lists or dicts; every other value is a str or None.
StructuredKeys == {"line_items", "license_info", "payment_info"}

\* json.dump of a dict: None is written as null
json_dump(data) ==
    [k \in DOMAIN data |->
        IF k \in StructuredKeys THEN data[k] ELSE IF data[k] = None THEN JsonNull ELSE data[k]]

\* json.load of an object: null is read as None
json_load(object) ==
    [k \in DOMAIN object |->
        IF k \in StructuredKeys THEN object[k] ELSE IF object[k] = JsonNull THEN None ELSE object[k]]

JsonSuffix == ".json"

MetadataSuffix == "_metadata.json"

record_path(invoice_id) == invoice_id \o JsonSuffix

metadata_path(invoice_id) == invoice_id \o MetadataSuffix

ends_with(s, suffix) ==
    Len(s) >= Len(suffix) /\ SubSeq(s, Len(s) - Len(suffix) + 1, Len(s)) = suffix

\* Path.stem of a *.json name
stem(name) == SubSeq(name, 1, Len(name) - Len(JsonSuffix))

\* load_invoice_database into the empty mapping of a new process: every
\* file that matches *.json, keyed by its stem
load_invoice_database(dir) ==
    [id \in {stem(n) : n \in {m \in DOMAIN dir : ends_with(m, JsonSuffix)}} |->
        json_load(dir[id \o JsonSuffix])]

(***************************************************************************)
(* gdrive.py                                                               *)
(***************************************************************************)

\* The file resource the API returns for file f (fields id, name, mimeType,
\* modifiedTime)
file_info(drv, f) ==
    [id |-> f, name |-> Contents[drv[f].c].name, mimeType |-> Contents[drv[f].c].mimeType,
     modifiedTime |-> drv[f].modifiedTime]

\* The orders in which the API may list the files
Orders == {o \in [1..Cardinality(FileIds) -> FileIds] : \A i, j \in DOMAIN o : o[i] = o[j] => i = j}

\* GoogleDriveClient.get_folder_contents: every file of the folder
\* the file resources of the files listed
resources(drv, listed) == [i \in 1..Len(listed) |-> file_info(drv, listed[i])]

\* A listing that leaves out the files not modified since time 0
get_folder_contents_newer(drv, order) ==
    resources(drv, SelectSeq(order, LAMBDA f : drv[f].c # 0 /\ drv[f].modifiedTime > 0))

\* GoogleDriveClient.get_folder_contents: every file of the folder, in the
\* order the API lists them
get_folder_contents(drv, order) == resources(drv, SelectSeq(order, LAMBDA f : drv[f].c # 0))

\* The files().list request of check_for_new_files, with the query
\* modifiedTime > last_check
list_modified_since(drv, order, last_check) ==
    resources(drv, SelectSeq(order, LAMBDA f : drv[f].c # 0 /\ drv[f].modifiedTime > last_check))

\* GoogleDriveClient.is_pdf
is_pdf(info) == info.mimeType = "application/pdf"

\* GoogleDriveClient.download_file: the bytes (pages) of the file now
download_file(drv, f) == Contents[drv[f].c].pages

(***************************************************************************)
(* server.py: the store and the processing of files                        *)
(***************************************************************************)

\* One failure of a collaborator during a call: none, or the first one that
\* raises (every exception ends the call, so one is all a call can meet).
Faults == {[kind |-> "none", file |-> None], [kind |-> "lookup", file |-> None],
           [kind |-> "record", file |-> None], [kind |-> "metadata", file |-> None]}
          \cup {[kind |-> "download", file |-> f] : f \in FileIds}

\* The texts the model's files hold
Texts == {extract_text(Contents[i].pages) : i \in 1..Len(Contents)} \ {None}

\* is_invoice and extract_invoice_data of each of them, computed once
is_invoice_of == [t \in Texts |-> is_invoice(t)]

invoice_data_of == [t \in Texts |-> extract_invoice_data(t)]

\* invoice_data.invoice_number or f"inv_{file_id}"
invoice_id_of(data, f) == IF Truthy(data.invoice_number) THEN data.invoice_number ELSE "inv_" \o f

\* save_invoice_data on the store st = [db, dir, ...]
save_invoice_data(st, invoice_id, data) ==
    [st EXCEPT !.dir = dict_set(st.dir, record_path(invoice_id), json_dump(data)),
               !.db = dict_set(st.db, invoice_id, data)]

\* The metadata dict of handle_new_files
metadata_of(text, info, now) ==
    [raw_text |-> text, file_name |-> info.name, file_id |-> info.id, processed_date |-> isoformat(now)]

\* handle_new_files, lines 89-95: the metadata file is written and the file
\* is marked as processed
save_metadata(saved, invoice_id, metadata, f) ==
    [saved EXCEPT !.dir = dict_set(saved.dir, metadata_path(invoice_id), json_dump(metadata)),
                  !.processed = @ \cup {f}]

\* handle_new_files, lines 78-95, for the invoice found in text
handle_saving(info, st, now, fault, text, data, invoice_id) ==
    IF fault.kind = "record" THEN [st EXCEPT !.raised = "OSError"]
    ELSE IF fault.kind = "metadata"
         THEN [save_invoice_data(st, invoice_id, data) EXCEPT !.raised = "OSError"]
    ELSE save_metadata(save_invoice_data(st, invoice_id, data), invoice_id,
                       metadata_of(text, info, now), info.id)

\* handle_new_files, lines 73-95
handle_invoice(info, st, now, fault, text, data) ==
    handle_saving(info, st, now, fault, text, data, invoice_id_of(data, info.id))

\* handle_new_files, lines 70-95, for the text of a file
handle_text(info, st, now, fault, text) ==
    IF text = None THEN [st EXCEPT !.raised = "PdfReadError"]
    ELSE IF ~is_invoice_of[text] THEN [st EXCEPT !.processed = @ \cup {info.id}]
    ELSE handle_invoice(info, st, now, fault, text, invoice_data_of[text])

\* One iteration of the loop of handle_new_files, on st = [db, dir,
\* processed, raised]: raised names the exception that ended it, if any.
handle_one(info, st, drv, now, fault) ==
    IF info.id \in st.processed THEN st
    ELSE IF ~is_pdf(info) THEN st
    ELSE IF fault.kind = "download" /\ fault.file = info.id THEN [st EXCEPT !.raised = "HttpError"]
    ELSE handle_text(info, st, now, fault, extract_text(download_file(drv, info.id)))

RECURSIVE handle_new_files(_, _, _, _, _)
\* handle_new_files(files): the loop, ended by the first exception
handle_new_files(files, st, drv, now, fault) ==
    IF files = <<>> \/ st.raised # None THEN st
    ELSE handle_new_files(Tail(files), handle_one(Head(files), st, drv, now, fault), drv, now, fault)

\* process_file, lines 213-218
process_saving(info, st, fault, data, invoice_id) ==
    IF fault.kind = "record" THEN [st EXCEPT !.raised = "cannot write " \o record_path(invoice_id)]
    ELSE [save_invoice_data(st, invoice_id, data) EXCEPT
              !.processed = @ \cup {info.id},
              !.message = "Successfully processed invoice " \o invoice_id
                          \o " from file " \o info.name]

\* process_file, lines 207-218
process_invoice(info, st, fault, data) ==
    process_saving(info, st, fault, data, invoice_id_of(data, info.id))

\* process_file, lines 203-218, for the text of the file
process_text(info, st, fault, text) ==
    IF text = None THEN [st EXCEPT !.raised = "cannot read PDF"]
    ELSE IF ~is_invoice_of[text]
         THEN [st EXCEPT !.message = "This PDF does not appear to be an invoice."]
    ELSE process_invoice(info, st, fault, invoice_data_of[text])

\* A process_file that marks the file as processed before it downloads it
process_info_marking(info, st, drv, fault) ==
    IF ~is_pdf(info) THEN [st EXCEPT !.message = "This file is not a PDF."]
    ELSE IF fault.kind = "download" /\ fault.file = info.id
         THEN [st EXCEPT !.raised = "download failed", !.processed = @ \cup {info.id}]
    ELSE process_text(info, [st EXCEPT !.processed = @ \cup {info.id}], fault,
                      extract_text(download_file(drv, info.id)))

\* process_file, lines 195-218, for the file resource found
process_info(info, st, drv, fault) ==
    IF ~is_pdf(info) THEN [st EXCEPT !.message = "This file is not a PDF."]
    ELSE IF fault.kind = "download" /\ fault.file = info.id
         THEN [st EXCEPT !.raised = "download failed"]
    ELSE process_text(info, st, fault, extract_text(download_file(drv, info.id)))

\* The body of the try block of process_file on st = [db, dir, processed,
\* raised, message]
process_file_body(f, st, drv, fault) ==
    IF fault.kind = "lookup" \/ drv[f].c = 0 THEN [st EXCEPT !.raised = "File not found: " \o f]
    ELSE process_info(file_info(drv, f), st, drv, fault)

ErrorPrefix == "Error processing file: "

\* except Exception as e: what was raised becomes the returned message
process_file_except(r) ==
    IF r.raised # None THEN [r EXCEPT !.message = ErrorPrefix \o r.raised, !.raised = None] ELSE r

\* process_file: the try block and its except clause
process_file_call(f, st, drv, fault) == process_file_except(process_file_body(f, st, drv, fault))

(***************************************************************************)
(* float and datetime, as the query tools use them.  A float is kept as    *)
(* the exact decimal m / 10^e it was written as, or as an infinity, or as  *)
(* nan; sums and comparisons are exact.                                    *)
(***************************************************************************)

RECURSIVE Pow10(_)
Pow10(n) == IF n = 0 THEN 1 ELSE 10 * Pow10(n - 1)

RECURSIVE Finite(_, _)
\* the float m / 10^e, without trailing decimal zeros
Finite(m, e) == IF e > 0 /\ m % 10 = 0 THEN Finite(m \div 10, e - 1)
                ELSE [kind |-> "finite", m |-> m, e |-> e]

Infinite(sign) == [kind |-> "inf", m |-> sign, e |-> 0]

NaN == [kind |-> "nan", m |-> 0, e |-> 0]

\* the int 0 the sums start from
Zero == Finite(0, 0)

\* None, where a float is optional
NoNumber == [kind |-> "None", m |-> 0, e |-> 0]

\* what float() raises
ValueError == [kind |-> "ValueError", m |-> 0, e |-> 0]

\* where a float stands against the finite ones
Side(a) == IF a.kind = "inf" THEN a.m ELSE 0

\* a < b
num_lt(a, b) ==
    /\ a.kind # "nan" /\ b.kind # "nan"
    /\ IF a.kind = "inf" \/ b.kind = "inf" THEN Side(a) < Side(b)
       ELSE a.m * Pow10(b.e) < b.m * Pow10(a.e)

\* a > b
num_gt(a, b) == num_lt(b, a)

\* a + b
num_add(a, b) ==
    IF a.kind = "nan" \/ b.kind = "nan" THEN NaN
    ELSE IF a.kind = "inf" THEN (IF b.kind = "inf" /\ b.m # a.m THEN NaN ELSE a)
    ELSE IF b.kind = "inf" THEN b
    ELSE Finite(a.m * Pow10(b.e) + b.m * Pow10(a.e), a.e + b.e)

is_digits(s) == \A i \in 1..Len(s) : IndexIn(CharAt(s, i), Digits) # 0

RECURSIVE digits_value(_)
\* the number a string of digits writes
digits_value(s) == IF s = "" THEN 0
                   ELSE 10 * digits_value(SubSeq(s, 1, Len(s) - 1))
                        + IndexIn(CharAt(s, Len(s)), Digits) - 1

\* digits "." digits, with a digit on one side at least
float_parts(sign, whole, frac) ==
    IF is_digits(whole) /\ is_digits(frac) /\ Len(whole) + Len(frac) > 0
    THEN Finite(sign * digits_value(whole \o frac), Len(frac))
    ELSE ValueError

\* the decimal u, whose "." is at index dot (0: none)
float_decimal(sign, u, dot) ==
    IF dot = 0 THEN float_parts(sign, u, "")
    ELSE float_parts(sign, SubSeq(u, 1, dot - 1), SubSeq(u, dot + 1, Len(u)))

\* u after its sign; word is u in lower case
float_unsigned(sign, u, word) ==
    IF word = "nan" THEN NaN
    ELSE IF word \in {"inf", "infinity"} THEN Infinite(sign)
    ELSE float_decimal(sign, u, IndexIn(".", u))

\* t with its sign
float_signed(t) ==
    IF t # "" /\ CharAt(t, 1) \in {"+", "-"}
    THEN float_unsigned(IF CharAt(t, 1) = "-" THEN -1 ELSE 1,
                        SubSeq(t, 2, Len(t)), str_lower(SubSeq(t, 2, Len(t))))
    ELSE float_unsigned(1, t, str_lower(t))

\* float(s) for a str: surrounding whitespace, a sign, then a decimal, an
\* infinity or nan (no amount of the model is written with an exponent or
\* with underscores between digits)
float(s) == float_signed(str_strip(s))

\* float(str(amount).replace(",", ""))
amount_float(amount) == float(str_remove(amount, ","))

\* the %m, %d and %Y fields of datetime.strptime
MonthField == {ToString(n) : n \in 1..12} \cup {"0" \o ToString(n) : n \in 1..9}

DayField == {ToString(n) : n \in 1..31} \cup {"0" \o ToString(n) : n \in 1..9}
            \cup {" " \o ToString(n) : n \in 1..9}

is_leap(y) == y % 4 = 0 /\ (y % 100 # 0 \/ y % 400 = 0)

days_in_month(y, m) == IF m = 2 THEN (IF is_leap(y) THEN 29 ELSE 28)
                       ELSE IF m \in {4, 6, 9, 11} THEN 30 ELSE 31

\* datetime(y, m, d), or the ValueError of a day or year out of range
datetime(y, m, d) ==
    IF y >= 1 /\ d <= days_in_month(y, m) THEN [ok |-> TRUE, y |-> y, m |-> m, d |-> d]
    ELSE [ok |-> FALSE]

\* the date of the three fields
strptime_fields(month, day, year) ==
    IF month \in MonthField /\ day \in DayField /\ Len(year) = 4 /\ is_digits(year)
    THEN datetime(digits_value(year), digits_value(month), digits_value(str_strip(day)))
    ELSE [ok |-> FALSE]

\* rest is what follows the month, its "/" at index j
strptime_rest(month, rest, j) ==
    IF j = 0 THEN [ok |-> FALSE]
    ELSE strptime_fields(month, SubSeq(rest, 1, j - 1), SubSeq(rest, j + 1, Len(rest)))

\* the first "/" of s is at index i
strptime_from(s, i) ==
    IF i = 0 THEN [ok |-> FALSE]
    ELSE strptime_rest(SubSeq(s, 1, i - 1), SubSeq(s, i + 1, Len(s)),
                       IndexIn("/", SubSeq(s, i + 1, Len(s))))

\* datetime.strptime(s, "%m/%d/%Y"): [ok |-> FALSE] for ValueError
strptime(s) == strptime_from(s, IndexIn("/", s))

\* the order of two dates
ordinal(date) == date.y * 10000 + date.m * 100 + date.d

two_digits(n) == IF n < 10 THEN "0" \o ToString(n) ELSE ToString(n)

\* date.strftime("%Y-%m-%d")
strftime(date) == ToString(date.y) \o "-" \o two_digits(date.m) \o "-" \o two_digits(date.d)

(***************************************************************************)
(* server.py: the query tools.  A dict is iterated in insertion order; the *)
(* loops below take the records in some order, which the exact sums, the   *)
(* counts and the sets of results do not depend on.                        *)
(***************************************************************************)

\* search_invoices, lines 313-315
vendor_matches(data, vendor) == ~(Truthy(vendor) /\ dict_get(data, "vendor_name", None) # vendor)

\* lines 320-331: the parsed amount against the bounds supplied
in_range(amount_float_, min_amount, max_amount) ==
    IF amount_float_.kind = "ValueError" THEN FALSE
    ELSE /\ ~(min_amount.kind # "None" /\ num_lt(amount_float_, min_amount))
         /\ ~(max_amount.kind # "None" /\ num_gt(amount_float_, max_amount))

\* lines 318-331
amount_matches(amount, min_amount, max_amount) ==
    IF Truthy(amount) /\ (min_amount.kind # "None" \/ max_amount.kind # "None")
    THEN in_range(amount_float(amount), min_amount, max_amount)
    ELSE TRUE

\* lines 339-342 and 344-347: a bound that does not parse raises ValueError
not_before(date_obj, start) == start.ok /\ ordinal(date_obj) >= ordinal(start)

not_after(date_obj, end) == end.ok /\ ordinal(date_obj) <= ordinal(end)

\* lines 336-351
in_dates(date_obj, start_date, end_date) ==
    /\ date_obj.ok
    /\ Truthy(start_date) => not_before(date_obj, strptime(start_date))
    /\ Truthy(end_date) => not_after(date_obj, strptime(end_date))

\* lines 334-351
date_matches(invoice_date, start_date, end_date) ==
    IF Truthy(invoice_date) /\ (Truthy(start_date) \/ Truthy(end_date))
    THEN in_dates(strptime(invoice_date), start_date, end_date)
    ELSE TRUE

\* lines 358-363
text_matches(metadata, keyword) ==
    str_contains(str_lower(dict_get(metadata, "raw_text", "")), str_lower(keyword))

\* A keyword filter that lets a record without metadata pass
keyword_matches_lenient(dir, invoice_id, keyword) ==
    IF ~Truthy(keyword) THEN TRUE
    ELSE IF metadata_path(invoice_id) \in DOMAIN dir
         THEN text_matches(json_load(dir[metadata_path(invoice_id)]), keyword)
    ELSE TRUE

\* lines 354-366
keyword_matches(dir, invoice_id, keyword) ==
    IF ~Truthy(keyword) THEN TRUE
    ELSE IF metadata_path(invoice_id) \in DOMAIN dir
         THEN text_matches(json_load(dir[metadata_path(invoice_id)]), keyword)
    ELSE FALSE

\* lines 311-366: is_match at the end of an iteration
is_match(invoice_id, data, dir, q) ==
    /\ vendor_matches(data, q.vendor)
    /\ amount_matches(dict_get(data, "total_amount", None), q.min_amount, q.max_amount)
    /\ date_matches(dict_get(data, "invoice_date", None), q.start_date, q.end_date)
    /\ keyword_matches(dir, invoice_id, q.keyword)

\* lines 370-376
match_of(invoice_id, data) ==
    [id |-> invoice_id,
     vendor |-> dict_get(data, "vendor_name", "Unknown"),
     date |-> dict_get(data, "invoice_date", "Unknown"),
     amount |-> dict_get(data, "total_amount", "Unknown"),
     currency |-> dict_get(data, "currency", "USD")]

\* search_invoices: the matches returned
search_invoices_call(db, dir, q) ==
    {match_of(id, db[id]) : id \in {i \in DOMAIN db : is_match(i, db[i], dir, q)}}

\* the amount a record adds to a sum: lines 140-146 and 248-257
or_zero(amount_float_) == IF amount_float_.kind = "ValueError" THEN Zero ELSE amount_float_

spend_of(amount) == IF Truthy(amount) THEN or_zero(amount_float(amount)) ELSE Zero

\* list_vendors, lines 132-146: the record is counted under its vendor
count_under(vendors, vendor_name, entry, amount) ==
    dict_set(vendors, vendor_name,
             [invoice_count |-> entry.invoice_count + 1,
              total_spend |-> num_add(entry.total_spend, spend_of(amount))])

\* An aggregation that leaves out the records whose amount does not parse
count_invoice_parsed(vendors, data, vendor_name) ==
    IF ~Truthy(vendor_name) THEN vendors
    ELSE IF Truthy(dict_get(data, "total_amount", None))
            /\ amount_float(dict_get(data, "total_amount", None)).kind = "ValueError"
         THEN vendors
    ELSE count_under(vendors, vendor_name,
                     dict_get(vendors, vendor_name, [invoice_count |-> 0, total_spend |-> Zero]),
                     dict_get(data, "total_amount", None))

\* lines 130-146: one iteration
count_invoice(vendors, data, vendor_name) ==
    IF ~Truthy(vendor_name) THEN vendors
    ELSE count_under(vendors, vendor_name,
                     dict_get(vendors, vendor_name, [invoice_count |-> 0, total_spend |-> Zero]),
                     dict_get(data, "total_amount", None))

RECURSIVE vendors_of(_, _, _)

vendors_after(ids, db, vendors, id) ==
    vendors_of(ids \ {id}, db, count_invoice(vendors, db[id], dict_get(db[id], "vendor_name", None)))

\* lines 128-146: the loop over the records ids, from the dict vendors
vendors_of(ids, db, vendors) ==
    IF ids = {} THEN vendors ELSE vendors_after(ids, db, vendors, CHOOSE id \in ids : TRUE)

\* list_vendors: the dict vendors it builds (it returns the names, list(vendors.keys()))
list_vendors_call(db) == vendors_of(DOMAIN db, db, EmptyDict)

\* get_invoice_analytics, lines 248-257, on a = [vendors, total_amount,
\* currencies, earliest_date, latest_date]
add_amount(a, amount_float_, currency) ==
    IF amount_float_.kind = "ValueError" THEN a
    ELSE [a EXCEPT !.total_amount = num_add(@, amount_float_),
                   !.currencies = dict_set(@, currency,
                                           num_add(dict_get(@, currency, Zero), amount_float_))]

\* lines 245-257
sum_amount(a, amount, currency) ==
    IF Truthy(amount) THEN add_amount(a, amount_float(amount), currency) ELSE a

\* lines 264-270
track_parsed(a, parsed_date) ==
    IF ~parsed_date.ok THEN a
    ELSE [a EXCEPT !.earliest_date = IF ~@.ok \/ ordinal(parsed_date) < ordinal(@)
                                     THEN parsed_date ELSE @,
                   !.latest_date = IF ~@.ok \/ ordinal(parsed_date) > ordinal(@)
                                   THEN parsed_date ELSE @]

\* lines 260-270
track_date(a, date) == IF Truthy(date) THEN track_parsed(a, strptime(date)) ELSE a

\* lines 241-242
count_vendor(a, vendor_name) ==
    IF Truthy(vendor_name) THEN [a EXCEPT !.vendors = @ \cup {vendor_name}] ELSE a

\* lines 239-270: one iteration
analyse(a, data) ==
    track_date(sum_amount(count_vendor(a, dict_get(data, "vendor_name", None)),
                          dict_get(data, "total_amount", None),
                          dict_get(data, "currency", "Unknown")),
               dict_get(data, "invoice_date", None))

RECURSIVE analysis_of(_, _, _)

analysis_after(ids, db, a, id) == analysis_of(ids \ {id}, db, analyse(a, db[id]))

\* lines 239-270: the loop
analysis_of(ids, db, a) ==
    IF ids = {} THEN a ELSE analysis_after(ids, db, a, CHOOSE id \in ids : TRUE)

\* json.dumps writes the key None as null
json_key(key) == IF key = None THEN JsonNull ELSE key

json_keys(d) == [k \in {json_key(key) : key \in DOMAIN d} |->
                    d[CHOOSE key \in DOMAIN d : json_key(key) = k]]

\* lines 279-280
date_or_unknown(date) == IF date.ok THEN strftime(date) ELSE "Unknown"

\* lines 273-284
analytics_of(db, a) ==
    [total_invoices |-> Cardinality(DOMAIN db),
     vendor_count |-> Cardinality(a.vendors),
     vendor_list |-> a.vendors,
     total_amount_by_currency |-> json_keys(a.currencies),
     date_range |-> [earliest |-> date_or_unknown(a.earliest_date),
                     latest |-> date_or_unknown(a.latest_date)]]

NoAnalytics == "No invoices have been processed yet."

\* get_invoice_analytics: the message, or the analytics dict
get_invoice_analytics_call(db) ==
    IF DOMAIN db = {} THEN NoAnalytics
    ELSE analytics_of(db, analysis_of(DOMAIN db, db,
                                      [vendors |-> {}, total_amount |-> Zero,
                                       currencies |-> EmptyDict,
                                       earliest_date |-> [ok |-> FALSE],
                                       latest_date |-> [ok |-> FALSE]]))

(***************************************************************************)
(* The system: the process, the Drive folder and the clock                 *)
(***************************************************************************)

Idle == [state |-> "idle", folder |-> None, files |-> <<>>]

NoCheck == [folder |-> None, first |-> FALSE, raised |-> FALSE, files |-> <<>>]

NoReply == [tool |-> None, args |-> None, result |-> None]

NoFault == [kind |-> "none", file |-> None]

\* The store of a process: the mapping, the directory, the processed set
\* and, during a call, the exception raised and the message to return
store_of(db, dir, processed) ==
    [db |-> db, dir |-> dir, processed |-> processed, raised |-> None, message |-> None]

Init ==
    /\ clock = 0
    /\ drive = [f \in FileIds |-> Absent]
    /\ watched_folders = {}
    /\ last_check_time = EmptyDict
    /\ poll = Idle
    /\ check_result = NoCheck
    /\ processed_files = {}
    /\ invoice_database = EmptyDict
    /\ disk = EmptyDict
    /\ reply = NoReply
    /\ writes = 0
    /\ restarts = 0

\* Time passes.
Tick ==
    /\ clock < MaxTime
    /\ clock' = clock + 1
    /\ UNCHANGED <<drive, watched_folders, last_check_time, poll, check_result,
                   processed_files, invoice_database, disk, reply, writes, restarts>>

\* A user uploads file f to the folder, or replaces its content.
DriveWrite(f, c) ==
    /\ writes < MaxWrites
    /\ drive[f].c # c
    /\ drive' = [drive EXCEPT ![f] = [c |-> c, modifiedTime |-> clock]]
    /\ writes' = writes + 1
    /\ UNCHANGED <<clock, watched_folders, last_check_time, poll, check_result,
                   processed_files, invoice_database, disk, reply, restarts>>

\* start_monitoring(folder_id) -> GoogleDriveClient.start_watching_folder:
\* the entry of the folder is set, again when the folder is watched already
\* (the callback and the interval are the same at every call)
start_watching_folder(folder) ==
    /\ poll = Idle
    /\ watched_folders' = watched_folders \cup {folder}
    /\ UNCHANGED <<clock, drive, last_check_time, poll, check_result,
                   processed_files, invoice_database, disk, reply, writes, restarts>>

\* A stop_watching_folder that forgets the cursor of the folder as well
stop_watching_folder_forgetting(folder) ==
    /\ poll = Idle
    /\ folder \in watched_folders
    /\ watched_folders' = watched_folders \ {folder}
    /\ last_check_time' = [g \in DOMAIN last_check_time \ {folder} |-> last_check_time[g]]
    /\ UNCHANGED <<clock, drive, poll, check_result,
                   processed_files, invoice_database, disk, reply, writes, restarts>>

\* GoogleDriveClient.stop_watching_folder
stop_watching_folder(folder) ==
    /\ poll = Idle
    /\ folder \in watched_folders
    /\ watched_folders' = watched_folders \ {folder}
    /\ UNCHANGED <<clock, drive, last_check_time, poll, check_result,
                   processed_files, invoice_database, disk, reply, writes, restarts>>

\* poll_watched_folders reaches check_for_new_files(folder).  Without a
\* cursor it sets one to now and then asks for the whole folder; with one it
\* asks for the files modified after it, and Drive evaluates the query.
PollStart(folder, order) ==
    /\ poll = Idle
    /\ folder \in watched_folders
    /\ IF folder \notin DOMAIN last_check_time
       THEN /\ last_check_time' = dict_set(last_check_time, folder, clock)
            /\ poll' = [state |-> "first", folder |-> folder, files |-> <<>>]
       ELSE /\ poll' = [state |-> "delta", folder |-> folder,
                        files |-> list_modified_since(drive, order, last_check_time[folder])]
            /\ UNCHANGED last_check_time
    /\ UNCHANGED <<clock, drive, watched_folders, check_result,
                   processed_files, invoice_database, disk, reply, writes, restarts>>

\* the ids of the file resources returned
ids_of(files) == [i \in 1..Len(files) |-> files[i].id]

\* the state after handle_new_files
Handled(st) ==
    /\ invoice_database' = st.db
    /\ disk' = st.dir
    /\ processed_files' = st.processed

\* check_for_new_files returns new_files and poll_watched_folders hands
\* them, if any, to handle_new_files
PollReturns(new_files, fault) ==
    /\ check_result' = [folder |-> poll.folder, first |-> poll.state = "first",
                        raised |-> FALSE, files |-> ids_of(new_files)]
    /\ Handled(handle_new_files(new_files,
                                store_of(invoice_database, disk, processed_files),
                                drive, clock, fault))

\* check_for_new_files returns: a first check lists the folder now, a later
\* one sets the cursor to now and returns the files Drive listed.
PollFinish(order, fault) ==
    /\ poll.state \in {"first", "delta"}
    /\ PollReturns(IF poll.state = "first" THEN get_folder_contents(drive, order) ELSE poll.files,
                   fault)
    /\ last_check_time' = IF poll.state = "first" THEN last_check_time
                          ELSE dict_set(last_check_time, poll.folder, clock)
    /\ poll' = Idle
    /\ UNCHANGED <<clock, drive, watched_folders, reply, writes, restarts>>

\* The listing request of check_for_new_files raises: in a first check
\* after the cursor was set, in a later one before it is moved.
PollFails ==
    /\ poll.state \in {"first", "delta"}
    /\ check_result' = [folder |-> poll.folder, first |-> poll.state = "first",
                        raised |-> TRUE, files |-> <<>>]
    /\ poll' = Idle
    /\ UNCHANGED <<clock, drive, watched_folders, last_check_time,
                   processed_files, invoice_database, disk, reply, writes, restarts>>

\* process_file returns r.message
process_file_returns(f, r) ==
    /\ Handled(r)
    /\ reply' = [tool |-> "process_file", args |-> f, result |-> r.message]

\* The tool process_file(file_id)
process_file(f, fault) ==
    /\ poll = Idle
    /\ process_file_returns(f, process_file_call(f, store_of(invoice_database, disk, processed_files),
                                                 drive, fault))
    /\ UNCHANGED <<clock, drive, watched_folders, last_check_time, poll, check_result,
                   writes, restarts>>

\* The process ends and a new one starts: the module state is built anew
\* and load_invoice_database reads the store directory.
Restart ==
    /\ restarts < MaxRestarts
    /\ restarts' = restarts + 1
    /\ watched_folders' = {}
    /\ last_check_time' = EmptyDict
    /\ poll' = Idle
    /\ check_result' = NoCheck
    /\ processed_files' = {}
    /\ invoice_database' = load_invoice_database(disk)
    /\ reply' = NoReply
    /\ UNCHANGED <<clock, drive, disk, writes>>

\* The files users upload while the store is written: invoices, two of them
\* with one invoice number, a PDF that is no invoice, one that cannot be
\* read and a file that is no PDF
Uploads == {1, 2, 3, 4, 5, 6}

\* The operations of the process and of the folder's users, the clock frozen
Next ==
    \/ \E f \in FileIds, c \in Uploads : DriveWrite(f, c)
    \/ \E folder \in FolderIds : start_watching_folder(folder)
    \/ \E folder \in FolderIds : stop_watching_folder(folder)
    \/ \E folder \in FolderIds, order \in Orders : PollStart(folder, order)
    \/ \E order \in Orders, fault \in Faults : PollFinish(order, fault)
    \/ PollFails
    \/ \E f \in FileIds, fault \in Faults : process_file(f, fault)
    \/ Restart

Spec == Init /\ [][Next]_vars

\* The uploads of the polling specification: an invoice, a PDF that cannot
\* be read, a file that is no PDF
PollUploads == {1, 5, 6}

\* One process polling the folder while the clock runs and users write to it
NextPoll ==
    \/ Tick
    \/ \E f \in FileIds, c \in PollUploads : DriveWrite(f, c)
    \/ \E folder \in FolderIds : start_watching_folder(folder)
    \/ \E folder \in FolderIds : stop_watching_folder(folder)
    \/ \E folder \in FolderIds, order \in Orders : PollStart(folder, order)
    \/ \E order \in Orders, fault \in Faults : PollFinish(order, fault)
    \/ PollFails

SpecPoll == Init /\ [][NextPoll]_vars

(***************************************************************************)
(* The query tools over the stores the process can hold                    *)
(***************************************************************************)

\* The files users upload before the store is queried
QueryUploads == {1, 2, 3, 7, 8}

\* A record a user put into the store directory, as load_invoice_database
\* finds it at startup
PlacedFiles == [k \in {"manual.json"} |-> [vendor_name |-> "Acme", total_amount |-> "not-a-number"]]

\* The order in which the files of the folder reach the store
FileOrder == <<"f1", "f2">>

\* The folder that holds Contents[c[f]] as file f (0: no file)
folder_of(c) ==
    [f \in FileIds |-> IF c[f] = 0 THEN Absent ELSE [c |-> c[f], modifiedTime |-> 0]]

\* File f reaches the store by a poll of the folder or by process_file
ingest_one(f, via, st, drv) ==
    IF drv[f].c = 0 THEN st
    ELSE IF via = "poll" THEN handle_one(file_info(drv, f), st, drv, 0, NoFault)
    ELSE process_file_call(f, st, drv, NoFault)

RECURSIVE ingest(_, _, _, _)
\* The files of the folder reach the store in the given order
ingest(order, via, st, drv) ==
    IF order = <<>> THEN st
    ELSE ingest(Tail(order), via, ingest_one(Head(order), via[Head(order)], st, drv), drv)

\* The process holds the store st, as it built it or as it loaded it
\* after a restart
Holding(drv, st, restarted) ==
    /\ drive = drv
    /\ disk = st.dir
    /\ invoice_database = IF restarted THEN load_invoice_database(st.dir) ELSE st.db
    /\ processed_files = IF restarted THEN {} ELSE st.processed
    /\ restarts = IF restarted THEN 1 ELSE 0
    /\ writes = Cardinality({f \in FileIds : drv[f].c # 0})

\* A process that found the directory dir at startup and then stored the
\* files of the folder
Stored(c, order, via, dir, restarted) ==
    Holding(folder_of(c),
            ingest(order, via, store_of(load_invoice_database(dir), dir, {}), folder_of(c)),
            restarted)

InitQuery ==
    /\ clock = 0
    /\ watched_folders = {}
    /\ last_check_time = EmptyDict
    /\ poll = Idle
    /\ check_result = NoCheck
    /\ reply = NoReply
    /\ \E c \in [FileIds -> QueryUploads \cup {0}],
          via \in [FileIds -> {"poll", "tool"}], dir \in {EmptyDict, PlacedFiles},
          restarted \in BOOLEAN :
          Stored(c, FileOrder, via, dir, restarted)

\* The arguments of search_invoices the model draws from
Vendors == {None, "Acme"}

MinAmounts == {NoNumber, Finite(100, 0)}

MaxAmounts == {NoNumber, Finite(500, 0)}

StartDates == {None, "01/15/2024"}

EndDates == {None, "2024-01-31"}

Keywords == {None, "", "ACME"}

Queries == [vendor : Vendors, min_amount : MinAmounts, max_amount : MaxAmounts,
            start_date : StartDates, end_date : EndDates, keyword : Keywords]

\* The tool search_invoices(vendor, min_amount, max_amount, start_date,
\* end_date, keyword)
search_invoices(q) ==
    /\ reply' = [tool |-> "search_invoices", args |-> q,
                 result |-> search_invoices_call(invoice_database, disk, q)]
    /\ UNCHANGED <<clock, drive, watched_folders, last_check_time, poll, check_result,
                   processed_files, invoice_database, disk, writes, restarts>>

\* list_vendors returns the names of the dict vendors
list_vendors_returns(vendors) ==
    reply' = [tool |-> "list_vendors", args |-> None, result |-> DOMAIN vendors,
              vendors |-> vendors]

\* The resource vendors://list
list_vendors ==
    /\ list_vendors_returns(list_vendors_call(invoice_database))
    /\ UNCHANGED <<clock, drive, watched_folders, last_check_time, poll, check_result,
                   processed_files, invoice_database, disk, writes, restarts>>

\* The tool get_invoice_analytics()
get_invoice_analytics ==
    /\ reply' = [tool |-> "get_invoice_analytics", args |-> None,
                 result |-> get_invoice_analytics_call(invoice_database)]
    /\ UNCHANGED <<clock, drive, watched_folders, last_check_time, poll, check_result,
                   processed_files, invoice_database, disk, writes, restarts>>

\* The client has taken the reply of its last call
ReplyRead ==
    /\ reply # NoReply
    /\ reply' = NoReply
    /\ UNCHANGED <<clock, drive, watched_folders, last_check_time, poll, check_result,
                   processed_files, invoice_database, disk, writes, restarts>>

\* A client that calls the query tools one call at a time
NextQuery ==
    \/ reply = NoReply /\ \E q \in Queries : search_invoices(q)
    \/ reply = NoReply /\ list_vendors
    \/ reply = NoReply /\ get_invoice_analytics
    \/ ReplyRead

SpecQuery == InitQuery /\ [][NextQuery]_vars

(***************************************************************************)
(* The classifier over texts                                               *)
(***************************************************************************)

\* Bound: the texts classified are made of up to MaxFragments fragments.
MaxFragments == 3

Fragments == {"INVOICE number: 7", " billed to Bob", " prepayments", " Due Date",
              " Total Amount", " memo", " invoice DATE"}

\* the texts ps, and each of them with one more fragment
Extended(ps) == ps \cup {p \o f : p \in ps, f \in Fragments}

RECURSIVE Phrases(_)
Phrases(n) == IF n = 0 THEN {""} ELSE Extended(Phrases(n - 1))

\* pdf_processor.is_invoice is about to be called on a text
InitClassify ==
    /\ clock = 0
    /\ drive = [f \in FileIds |-> Absent]
    /\ watched_folders = {}
    /\ last_check_time = EmptyDict
    /\ poll = Idle
    /\ check_result = NoCheck
    /\ processed_files = {}
    /\ invoice_database = EmptyDict
    /\ disk = EmptyDict
    /\ writes = 0
    /\ restarts = 0
    /\ \E text \in Phrases(MaxFragments) :
          reply = [tool |-> "call is_invoice", args |-> text, result |-> None]

\* is_invoice(text) returns
Classify ==
    /\ reply.tool = "call is_invoice"
    /\ reply' = [tool |-> "is_invoice", args |-> reply.args, result |-> is_invoice(reply.args)]
    /\ UNCHANGED <<clock, drive, watched_folders, last_check_time, poll, check_result,
                   processed_files, invoice_database, disk, writes, restarts>>

NextClassify == Classify

SpecClassify == InitClassify /\ [][NextClassify]_vars

(***************************************************************************)
(* The extractor over texts that state a total                             *)
(***************************************************************************)

\* What precedes the total in a text: nothing, or a line with an amount of
\* its own
Preambles == {"", "Paid: £5.00\n"}

\* The label of the total and what separates it from the amount; "Balance: "
\* is a label the total pattern does not know
TotalLabels == {"Total Amount: ", "TOTAL DUE ", "total:", "Balance: "}

\* The glyph written before the number, if any
Glyphs == {"", "$", "€", "£", "¥"}

\* The number of the total, as the invoice prints it
Numbers == {"1,234.56", "1234.56", "100.00", "7", "12,345,678"}

\* The text of an invoice that states its total
total_text(preamble, label, glyph, number) == preamble \o label \o glyph \o number \o "\n"

\* extract_invoice_data is about to be called on a text
InitExtract ==
    /\ clock = 0
    /\ drive = [f \in FileIds |-> Absent]
    /\ watched_folders = {}
    /\ last_check_time = EmptyDict
    /\ poll = Idle
    /\ check_result = NoCheck
    /\ processed_files = {}
    /\ invoice_database = EmptyDict
    /\ disk = EmptyDict
    /\ writes = 0
    /\ restarts = 0
    /\ \E preamble \in Preambles, label \in TotalLabels, glyph \in Glyphs, number \in Numbers :
          reply = [tool |-> "call extract_invoice_data",
                   args |-> total_text(preamble, label, glyph, number), result |-> None]

\* extract_invoice_data(text).to_dict() returns
Extract ==
    /\ reply.tool = "call extract_invoice_data"
    /\ reply' = [tool |-> "extract_invoice_data", args |-> reply.args,
                 result |-> extract_invoice_data(reply.args)]
    /\ UNCHANGED <<clock, drive, watched_folders, last_check_time, poll, check_result,
                   processed_files, invoice_database, disk, writes, restarts>>

NextExtract == Extract

SpecExtract == InitExtract /\ [][NextExtract]_vars

(***************************************************************************)
(* Properties of the store                                                 *)
(***************************************************************************)

\* C1: for any sequence of polls and process_file calls, a record is created
\* once and never updated in place: once an id is in the store, no later
\* operation of the process changes the data stored under it.
C1_RecordNeverRewritten ==
    [][restarts' = restarts =>
          \A id \in DOMAIN invoice_database :
              /\ id \in DOMAIN invoice_database'
              /\ invoice_database'[id] = invoice_database[id]]_vars

\* C2: discarding the in-memory mapping and running load_invoice_database
\* over the store directory yields the mapping the process held: the same
\* ids, the same field values, no additional keys.
C2_ReloadYieldsSameMapping == load_invoice_database(disk) = invoice_database

\* the names of the record files of the directory
RecordFiles(dir) == {n \in DOMAIN dir : ends_with(n, JsonSuffix) /\ ~ends_with(n, MetadataSuffix)}

MetadataKeys == {"raw_text", "file_name", "file_id", "processed_date"}

\* C3: in every reachable state each record persisted in the store has its
\* companion <id>_metadata.json holding raw_text, file_name, file_id and
\* processed_date, whichever operation created the record.
C3_EveryRecordHasMetadata ==
    \A n \in RecordFiles(disk) :
        /\ metadata_path(stem(n)) \in DOMAIN disk
        /\ DOMAIN disk[metadata_path(stem(n))] = MetadataKeys

(***************************************************************************)
(* Properties of the polling cursor                                        *)
(***************************************************************************)

\* the files in the folder
Present(drv) == {f \in FileIds : drv[f].c # 0}

\* the files a check returned
Returned(result) == {result.files[i] : i \in 1..Len(result.files)}

\* a check_for_new_files call of the given kind returns in this step
Returns(kind) == poll.state = kind /\ poll' = Idle /\ ~check_result'.raised

\* C6: the first check_for_new_files call for a folder without a cursor
\* returns the folder's entire current listing, not a delta filtered by
\* time, and leaves the folder with a cursor; from then on the folder keeps a
\* cursor and every call for it is a delta listing: the files it returns
\* were modified after the cursor the call found.
C6_FirstCheckFullLaterChecksDelta ==
    [][/\ Returns("first") =>
              /\ Returned(check_result') = Present(drive)
              /\ poll.folder \in DOMAIN last_check_time'
       /\ Returns("delta") =>
              \A f \in Returned(check_result') :
                  drive[f].modifiedTime > last_check_time[poll.folder]
       /\ \A folder \in DOMAIN last_check_time :
              /\ folder \in DOMAIN last_check_time'
              /\ (poll = Idle /\ poll'.folder = folder) => poll'.state = "delta"]_vars

\* A first check returned a file older than the cursor it set.
C6_FirstCheckReturnedOldFile ==
    /\ check_result.first /\ ~check_result.raised
    /\ check_result.folder \in DOMAIN last_check_time
    /\ \E f \in Returned(check_result) :
           drive[f].modifiedTime < last_check_time[check_result.folder]

(***************************************************************************)
(* Properties of process_file                                              *)
(***************************************************************************)

StartsWith(s, prefix) == Len(s) >= Len(prefix) /\ SubSeq(s, 1, Len(prefix)) = prefix

\* the text of the file f of the folder is that of an invoice
HoldsInvoice(f) ==
    /\ \A i \in 1..Len(Contents[drive[f].c].pages) : Contents[drive[f].c].pages[i] # BadPage
    /\ is_invoice_of[join_pages(Contents[drive[f].c].pages)]

\* a step of process_file(f) fails: the lookup (by the fault, or the file does
\* not exist), or for a PDF the download, the text extraction or the save
StepFails(f, fault) ==
    \/ fault.kind = "lookup"
    \/ drive[f].c = 0
    \/ /\ drive[f].c # 0
       /\ Contents[drive[f].c].mimeType = "application/pdf"
       /\ \/ fault.kind = "download" /\ fault.file = f
          \/ \E i \in 1..Len(Contents[drive[f].c].pages) : Contents[drive[f].c].pages[i] = BadPage
          \/ fault.kind = "record" /\ HoldsInvoice(f)

\* C9: process_file never propagates an error: whenever the file lookup,
\* the download, the text extraction or the save fails, it returns a
\* message string ("Error processing file: ...") and the file id is not
\* added to the processed-file set.
C9_ProcessFileReportsFailure ==
    [][\A f \in FileIds, fault \in Faults :
          (/\ reply'.tool = "process_file" /\ reply'.args = f
           /\ UNCHANGED <<drive, poll, watched_folders, restarts>>
           /\ StepFails(f, fault)
           /\ process_file(f, fault)) =>
              /\ StartsWith(reply'.result, ErrorPrefix)
              /\ processed_files' = processed_files]_vars

\* process_file failed on a file of the folder after another was processed.
C9_FailedCallLeftFileUnprocessed ==
    /\ reply.tool = "process_file"
    /\ StartsWith(reply.result, ErrorPrefix)
    /\ drive[reply.args].c # 0
    /\ reply.args \notin processed_files
    /\ processed_files # {}

(***************************************************************************)
(* Properties of the query tools                                           *)
(***************************************************************************)

\* word occurs in text, letter case apart
OccursIn(word, text) ==
    \E i \in 0..(Len(text) - Len(word)) :
        \A j \in 1..Len(word) : lower_char(CharAt(text, i + j)) = lower_char(CharAt(word, j))

\* the records search_invoices returned have metadata whose raw_text holds
\* the keyword
KeywordFound(result, keyword) ==
    \A m \in result :
        /\ metadata_path(m.id) \in DOMAIN disk
        /\ OccursIn(keyword, disk[metadata_path(m.id)].raw_text)

\* C4 (as stated): search_invoices with a keyword supplied never returns a
\* record whose metadata file is absent, whatever the other filters are; a
\* record with metadata is returned only if the lower-cased keyword is a
\* substring of the lower-cased raw_text.
C4_KeywordSuppliedNeedsMetadata ==
    (reply.tool = "search_invoices" /\ reply.args.keyword # None) =>
        KeywordFound(reply.result, reply.args.keyword)

\* C4 (amended): the same of every search whose keyword is supplied and is
\* not the empty string.
C4_NonEmptyKeywordNeedsMetadata ==
    (reply.tool = "search_invoices" /\ reply.args.keyword # None /\ reply.args.keyword # "") =>
        KeywordFound(reply.result, reply.args.keyword)

\* A search by vendor and keyword returned a record and left out a record of
\* that vendor which has no metadata.
C4_KeywordSearchLeftOutRecord ==
    /\ reply.tool = "search_invoices"
    /\ reply.args = [vendor |-> "Acme", min_amount |-> NoNumber, max_amount |-> NoNumber,
                     start_date |-> None, end_date |-> None, keyword |-> "ACME"]
    /\ reply.result # {}
    /\ \E id \in DOMAIN invoice_database :
           /\ dict_get(invoice_database[id], "vendor_name", None) = "Acme"
           /\ metadata_path(id) \notin DOMAIN disk
           /\ \A m \in reply.result : m.id # id

\* the stored amount parses to a number within the bounds supplied
WithinBounds(amount, min_amount, max_amount) ==
    /\ amount # None
    /\ amount_float(amount).kind = "finite"
    /\ min_amount # NoNumber => ~num_lt(amount_float(amount), min_amount)
    /\ max_amount # NoNumber => ~num_gt(amount_float(amount), max_amount)

\* C5: when min_amount and/or max_amount is supplied, every record that
\* search_invoices returns has a stored amount that parses, thousands
\* separators stripped, to a number a with min_amount <= a <= max_amount; a
\* record whose amount does not yield such a number is not returned.
C5_ReturnedAmountsAreInRange ==
    (/\ reply.tool = "search_invoices"
     /\ reply.args.min_amount # NoNumber \/ reply.args.max_amount # NoNumber) =>
        \A m \in reply.result :
            WithinBounds(dict_get(invoice_database[m.id], "total_amount", None),
                         reply.args.min_amount, reply.args.max_amount)

\* a dict as InvoiceData.to_dict builds it
FromExtractor(data) == {"currency", "total_amount", "invoice_number"} \subseteq DOMAIN data

\* C7: get_invoice_analytics groups the amounts by currency with the key
\* "Unknown" for a record without currency: every record of the extractor
\* with a parsable amount and no detected currency has its amount under
\* total_amount_by_currency["Unknown"].
C7_NoCurrencyCountsAsUnknown ==
    reply.tool = "get_invoice_analytics" =>
        \A id \in DOMAIN invoice_database :
            (/\ FromExtractor(invoice_database[id])
             /\ invoice_database[id].currency = None
             /\ Truthy(invoice_database[id].total_amount)
             /\ amount_float(invoice_database[id].total_amount).kind = "finite") =>
                "Unknown" \in DOMAIN reply.result.total_amount_by_currency

\* the records of a vendor
RecordsOf(db, name) == {id \in DOMAIN db : dict_get(db[id], "vendor_name", None) = name}

\* the amount of the record parses as a number
Parses(data) ==
    /\ Truthy(dict_get(data, "total_amount", None))
    /\ amount_float(dict_get(data, "total_amount", None)).kind # "ValueError"

RECURSIVE SumOfAmounts(_, _)
\* the sum of the amounts of the records ids, all of which parse
SumOfAmounts(ids, db) ==
    IF ids = {} THEN Zero
    ELSE num_add(amount_float(db[CHOOSE id \in ids : TRUE].total_amount),
                 SumOfAmounts(ids \ {CHOOSE id \in ids : TRUE}, db))

\* C8: list_vendors aggregates, over any store contents: a record with no
\* vendor_name contributes to no vendor; every record with a vendor_name adds
\* one to that vendor's invoice_count; a record whose amount does not parse
\* is counted and adds 0 to total_spend.
C8_VendorAggregation ==
    reply.tool = "list_vendors" =>
        /\ reply.result = DOMAIN reply.vendors
        /\ DOMAIN reply.vendors =
               {dict_get(invoice_database[id], "vendor_name", None) : id \in DOMAIN invoice_database}
               \ {None, ""}
        /\ \A name \in DOMAIN reply.vendors :
               /\ reply.vendors[name].invoice_count =
                      Cardinality(RecordsOf(invoice_database, name))
               /\ reply.vendors[name].total_spend =
                      SumOfAmounts({id \in RecordsOf(invoice_database, name) :
                                        Parses(invoice_database[id])},
                                   invoice_database)

\* list_vendors ran over a store with a record without vendor and two
\* records of one vendor, the amount of one of which does not parse.
C8_AggregatedUnparsableAmount ==
    /\ reply.tool = "list_vendors"
    /\ \E id \in DOMAIN invoice_database :
           ~Truthy(dict_get(invoice_database[id], "vendor_name", None))
    /\ \E id \in RecordsOf(invoice_database, "Acme") :
           /\ Truthy(dict_get(invoice_database[id], "total_amount", None))
           /\ ~Parses(invoice_database[id])
    /\ reply.vendors["Acme"].invoice_count = 2
    /\ reply.vendors["Acme"].total_spend = Finite(100, 0)

(***************************************************************************)
(* Properties of the classifier                                            *)
(***************************************************************************)

NineKeywords == {"invoice", "bill", "payment", "due date", "total amount",
                 "invoice number", "invoice date", "billed to", "payment terms"}

\* the keywords that occur in text
KeywordsIn(text) == {w \in NineKeywords : OccursIn(w, text)}

KnownLabels == TotalLabels \ {"Balance: "}

\* the code of a glyph, None without one
CodeOf(glyph) ==
    CASE glyph = "$" -> "USD" [] glyph = "€" -> "EUR" [] glyph = "£" -> "GBP"
      [] glyph = "¥" -> "JPY" [] OTHER -> None

\* extract_invoice_data has returned for the text of these parts
Extracted(preamble, label, glyph, number) ==
    /\ reply.tool = "extract_invoice_data"
    /\ reply.args = total_text(preamble, label, glyph, number)

\* C11: extract_invoice_data derives the currency from the total match only:
\* when the total label is followed by a glyph and a number, total_amount is
\* the number verbatim and currency the code of the glyph; when the total
\* match has no glyph, or there is no total match, currency stays null.
C11_TotalVerbatimCurrencyFromGlyph ==
    \A preamble \in Preambles, label \in TotalLabels, glyph \in Glyphs, number \in Numbers :
        Extracted(preamble, label, glyph, number) =>
            IF label \in KnownLabels
            THEN /\ reply.result.currency = CodeOf(glyph)
                 /\ glyph # "" => reply.result.total_amount = number
            ELSE /\ reply.result.currency = None
                 /\ reply.result.total_amount = None

\* C11, the part about the currency alone
C11_CurrencyFromGlyphOfTotal ==
    \A preamble \in Preambles, label \in TotalLabels, glyph \in Glyphs, number \in Numbers :
        Extracted(preamble, label, glyph, number) =>
            reply.result.currency = (IF label \in KnownLabels THEN CodeOf(glyph) ELSE None)

(***************************************************************************)
(* Properties of polling over time                                         *)
(***************************************************************************)

\* the files a delta listing with the lower bound last_check holds when Drive
\* evaluates it over the folder drv
Listing(drv, last_check) ==
    {list_modified_since(drv, FileOrder, last_check)[i].id :
        i \in 1..Len(list_modified_since(drv, FileOrder, last_check))}

\* the files modified while the delta listing of the poll was in flight: the
\* request of the poll, evaluated now, lists them, and the listing does not
ModifiedInFlight ==
    Listing(drive, last_check_time[poll.folder]) \ {poll.files[i].id : i \in 1..Len(poll.files)}

\* C12: a file modified while the listing request of a poll is in flight is
\* captured by the next poll of the folder: when the poll returns without
\* the file, the listing of the following call, which is bounded by the cursor
\* the poll leaves, holds it.
C12_ModifiedInFlightListedByNextPoll ==
    [][Returns("delta") =>
          \A f \in ModifiedInFlight :
              \/ f \in Returned(check_result')
              \/ f \in Listing(drive', last_check_time'[poll.folder])]_vars

\* a check_for_new_files call for the folder begins in this step and is of
\* the given kind
Begins(kind, folder) == poll = Idle /\ poll'.state = kind /\ poll'.folder = folder

\* the last check_for_new_files call was the first one of the folder and its
\* listing request raised
FirstCheckRaised(folder) ==
    check_result.folder = folder /\ check_result.first /\ check_result.raised

\* C13, its first part: a call that completes has set the cursor of the
\* folder to the time of the call, a first call when it begins and a later
\* call when it returns, whatever the listing holds.
C13_CompletedCallSetsCursor ==
    [][\A folder \in FolderIds :
          /\ Begins("first", folder) => last_check_time'[folder] = clock
          /\ (Returns("first") /\ poll.folder = folder) =>
                 last_check_time'[folder] = last_check_time[folder]
          /\ (Returns("delta") /\ poll.folder = folder) => last_check_time'[folder] = clock]_vars

\* C13, its second part: the cursor of a folder never decreases.
C13_CursorNeverDecreases ==
    [][\A folder \in DOMAIN last_check_time :
          /\ folder \in DOMAIN last_check_time'
          /\ last_check_time'[folder] >= last_check_time[folder]]_vars

\* C13: every check_for_new_files call that completes sets the cursor of the
\* folder to the time of the call, whether the listing is empty or not; the
\* cursor never decreases; and each delta listing holds the files modified
\* after the cursor, which the immediately preceding completed poll wrote:
\* no delta listing is bounded by the cursor of a call that did not complete.
C13_DeltaBoundedByLastCompletedPoll ==
    [][\A folder \in FolderIds :
          /\ (Returns("delta") /\ poll.folder = folder) => last_check_time'[folder] = clock
          /\ folder \in DOMAIN last_check_time =>
                 /\ folder \in DOMAIN last_check_time'
                 /\ last_check_time'[folder] >= last_check_time[folder]
          /\ Begins("delta", folder) =>
                 /\ {poll'.files[i].id : i \in 1..Len(poll'.files)} =
                        {f \in Present(drive) : drive[f].modifiedTime > last_check_time[folder]}
                 /\ ~FirstCheckRaised(folder)]_vars

\* a check_for_new_files call for the folder returns in this step
Completes(folder) == (Returns("first") \/ Returns("delta")) /\ poll.folder = folder

\* C14: no listed PDF is lost by polling: every PDF a poll's listing returns
\* is added to the processed-file set during that poll or is returned again
\* by a later poll of the folder, which lists the files modified after the
\* cursor the poll leaves, also when a failure on one file of the batch ends
\* handle_new_files before the remaining files are handled.
C14_ListedPdfProcessedOrListedAgain ==
    [][\A folder \in FolderIds :
          Completes(folder) =>
              \A f \in Returned(check_result') :
                  is_pdf(file_info(drive, f)) =>
                      \/ f \in processed_files'
                      \/ f \in Listing(drive', last_check_time'[folder])]_vars

\* C15: the cursor of a folder, once set, is never removed: only a step of
\* check_for_new_files changes last_check_time, so stop_watching_folder and
\* a repeated start_watching_folder leave it unchanged; a full-scan listing
\* begins only for a folder without a cursor and leaves it with one, and
\* every other call for the folder, a re-started one included, is a delta
\* listing of the files modified after the cursor the folder had.
C15_CursorOutlivesStopAndStart ==
    [][\A folder \in FolderIds :
          /\ folder \in DOMAIN last_check_time => folder \in DOMAIN last_check_time'
          /\ last_check_time' # last_check_time => poll' # poll
          /\ Begins("first", folder) =>
                 /\ folder \notin DOMAIN last_check_time
                 /\ folder \in DOMAIN last_check_time'
          /\ (folder \in DOMAIN last_check_time /\ poll = Idle /\ poll'.folder = folder) =>
                 /\ poll'.state = "delta"
                 /\ {poll'.files[i].id : i \in 1..Len(poll'.files)} =
                        {f \in Present(drive) : drive[f].modifiedTime > last_check_time[folder]}]_vars

\* A folder that was polled and then stopped: it is not watched and has its
\* cursor.
C15_StoppedFolderHasCursor ==
    \E folder \in DOMAIN last_check_time :
        /\ folder \notin watched_folders
        /\ check_result.folder = folder /\ ~check_result.raised

====
